---------------------------- MODULE Spec2Model ----------------------------
(***************************************************************************)
(* Model of the generation-call layer of guidance:                         *)
(*   - OpenAISession.__call__ (guidance/llms/_openai.py): cache lookup,    *)
(*     rate limiter, retry loop, streaming through stream_then_save;       *)
(*   - gen (guidance/library/_gen.py), the n == 1 consumer of the call.    *)
(* A program run is an asyncio task.  Tasks are cooperative: a task keeps  *)
(* the event loop (running = t) between two awaits; the front end's stop   *)
(* event and the (integer second) clock move only while no task is         *)
(* running.  Runs follow one another; they share the class level cache and *)
(* the call history of the instance they are bound to.                     *)
(* Stop inference of gen (InfSpec), the gen handler on its own (GenSpec),  *)
(* calls that ask for an unsupported capability (CapSpec),                 *)
(* Program.__call__ / Program.execute with the runs they create (RunSpec), *)
(* stop events of the front end (StopSpec), the credentials of the library *)
(* call (CredSpec) and two sessions on one rate limiter that go on calling *)
(* (LiveSpec, with fairness) are specifications of their own over the same *)
(* variables.                                                              *)
(***************************************************************************)
EXTENDS Integers, Sequences, FiniteSets, TLC

VARIABLES
    cache,          \* OpenAI.cache: class level, shared by every instance
    call_history,   \* OpenAI.call_history: one deque per instance
    now,            \* time.time(), in seconds
    running,        \* the task holding the event loop, 0 when none does
    tk,             \* per task: the locals of __call__ and gen, parser state
    lastDone,       \* history: the call that completed most recently
    ncalls,         \* history: number of calls started
    openai,         \* the globals of the openai package: api_key, organization
    llm,            \* per OpenAI object: its token and its organization
    gen,            \* the gen handler being executed: arguments and locals
    variables,      \* the variable store: the value of the target variable
    prefix,         \* the output buffer: the fragments given to partial_output
    parser,         \* the executor's flags: executing, should_stop
    ngens,          \* history: number of gen tags executed
    program,        \* the Program object that is called
    runs,           \* the Program objects its calls created, in call order
    heap,           \* the list objects variables refer to
    llm_cache,      \* OpenAI.cache as the runs see it: completions by key
    caller,         \* the code that calls and awaits the program
    inf             \* stop inference of gen: its inputs, its position, stop

callVars == <<cache, call_history, now, running, tk, lastDone, ncalls, openai, llm>>
genVars == <<gen, variables, prefix, parser, ngens>>
infVars == <<inf>>
runVars == <<program, runs, heap, llm_cache, caller>>
vars == <<callVars, genVars, infVars, runVars>>

\* a part of the program that a specification leaves out stays Off
Off == [pc |-> "off"]

----------------------------------------------------------------------------
\* Bounds of the model
MaxCalls == 2
MaxChunks == 2
\* configuration given to OpenAI(...) in the model
max_retries == 1
max_calls_per_min == 1

\* Program constants
Window == 60
RateSleep == 1
Backoff == 3

Tasks == {1}
LLMs == {1, 2}
Prompts == {"p"}
Cachings == {"True", "False", "None"}

\* OpenAI.__init__: self.caching, per instance (instance 1 keeps the default)
llm_caching == [l \in LLMs |-> l = 1]
\* the caching argument the programs bound to an instance pass to its calls
CachingsOf(l) == IF l = 1 THEN Cachings ELSE {"None"}

\* The provider's answer is a text of 1..MaxChunks deltas, "a" "b" "c" ...:
\* answers differ in how long they are
DeltaAt(i) == <<"a", "b", "c", "d", "e", "f">>[i]
Texts == {[i \in 1..n |-> DeltaAt(i)] : n \in 1..MaxChunks}

NoEntry == [kind |-> "none"]
Resp(text) == [kind |-> "resp", text |-> text]
Chunk(d) == [kind |-> "resp", text |-> <<d>>]
List(items) == [kind |-> "list", items |-> items]
Generator(key) == [kind |-> "generator", list_out |-> <<>>, key |-> key, state |-> "open"]
Unset == <<"unset">>

Keys == [prompt : Prompts, stream : BOOLEAN, caching : Cachings]

----------------------------------------------------------------------------
\* Pure helpers, one per expression of the source

\* key = self._cache_key(args), args = locals(): a deterministic function of
\* the call's parameters (all parameters but stream and caching are folded
\* into prompt)
CacheKey(p, s, c) == [prompt |-> p, stream |-> s, caching |-> c]

InCache(k) == cache[k].kind # "none"

\* "allow streaming to use non-streaming cache (the reverse is not true)"
FallbackKey(key, key1, stream) ==
    IF ~InCache(key) /\ stream /\ InCache(key1) THEN key1 ELSE key

CacheWrite_Dropped(c, key, out) == c

\* OpenAI.cache[key] = out
CacheWrite(c, key, out) == [c EXCEPT ![key] = out]

NeedsCall_IgnoresCache(key, caching, l) == TRUE

NeedsCall_NoneDisables(key, caching, l) == ~InCache(key) \/ caching # "True"

\* the guard of the call block
NeedsCall(key, caching, l) ==
    \/ ~InCache(key)
    \/ (caching # "True" /\ ~llm_caching[l])
    \/ caching = "False"

RECURSIVE count_calls_prune(_, _)
count_calls_prune(h, t) ==
    IF h # <<>> /\ h[1] < t - Window THEN count_calls_prune(Tail(h), t) ELSE h

add_call_NotRecorded(h, t) == h

add_call(h, t) == Append(h, t)

RateLimited(count) == count > max_calls_per_min

Caught_Everything(e) == TRUE

\* except openai.error.RateLimitError
Caught(e) == e = "RateLimitError"

RetryExhausted_OneEarly(fail_count) == fail_count >= max_retries

RetryExhausted(fail_count) == fail_count > max_retries

\* "wrap as a list if needed"
WrapResult(v, stream) ==
    IF stream
    THEN IF v.kind = "list" THEN v ELSE List(<<v>>)
    ELSE v

\* gen: "if not stream_generation: gen_obj = [gen_obj]"
GenWrap(v, stream_generation) == IF stream_generation THEN v ELSE List(<<v>>)

ShouldBreak_Never(should_stop) == FALSE

\* gen: "if parser.should_stop: break"
ShouldBreak(should_stop) == should_stop

stream_then_save_close_Saves(c, g) == [c EXCEPT ![g.key] = List(g.list_out)]

\* stream_then_save when the consumer closes it: GeneratorExit is raised at
\* the yield, the assignment to the cache after the loop is not reached
stream_then_save_close(c, g) == c

RECURSIVE Flatten(_)
Flatten(ss) == IF ss = <<>> THEN <<>> ELSE Head(ss) \o Flatten(Tail(ss))

----------------------------------------------------------------------------
NoCall == [valid |-> FALSE]

\* OpenAI.__init__ lines 89-102 with no token and no organization given:
\* the object takes the key and the organization the openai package took
\* from the environment
EnvCredentials ==
    /\ openai = [api_key |-> "sk-env", organization |-> "org-env"]
    /\ llm = [l \in LLMs |-> [token |-> "sk-env", organization |-> "org-env"]]

\* _library_call, lines 179-196: the globals are set to the credentials of
\* the object for the request and set back when the request returns
library_call(globals, l, raised) ==
    LET mine == [api_key |-> llm[l].token, organization |-> llm[l].organization]
    IN IF raised THEN mine ELSE globals

IdleTask ==
    [pc |-> "idle", llm |-> 1, prompt |-> "p", stream |-> FALSE, caching |-> "None",
     key |-> CacheKey("p", FALSE, "None"), fail_count |-> 0, wake |-> 0,
     out |-> NoEntry, gen_obj |-> NoEntry, pos |-> 0, resp |-> NoEntry,
     generated_value |-> <<>>, variable |-> Unset, output |-> <<>>,
     should_stop |-> FALSE, executing |-> TRUE, cap |-> "none",
     prev_key |-> "none", prev_org |-> "none",
     \* history of the call
     status |-> "none", ret |-> NoEntry, prov |-> 0, stamps |-> 0, waited |-> FALSE,
     hit |-> FALSE, wrote |-> FALSE, err |-> "none",
     stopped |-> FALSE, snap |-> <<>>, pred |-> NoCall]

\* OpenAI.cache is a disk cache: it is empty, or holds the response an
\* earlier process stored for a non-streamed call
WarmKey == CacheKey("p", FALSE, "None")
InitCaches ==
    {[k \in Keys |-> NoEntry]}
    \cup {[k \in Keys |-> IF k = WarmKey THEN Resp(<<DeltaAt(1)>>) ELSE NoEntry]}

Init ==
    /\ cache \in InitCaches
    /\ call_history = [l \in LLMs |-> <<>>]
    /\ EnvCredentials
    /\ now = 0
    /\ running = 0
    /\ tk = [t \in Tasks |-> IdleTask]
    /\ lastDone = NoCall
    /\ ncalls = 0
    /\ gen = Off /\ variables = Off /\ prefix = Off /\ parser = Off /\ ngens = 0
    /\ inf = Off
    /\ program = Off /\ runs = Off /\ heap = Off /\ llm_cache = Off /\ caller = Off

InCall(t) == tk[t].pc \notin {"idle", "done"}

\* what the call handed to its caller, as a value: the chunks a generator
\* has yielded so far, or the returned object
Result(r) ==
    IF r.ret.kind = "generator" THEN List(r.gen_obj.list_out) ELSE r.ret

Drained(r) == r.ret.kind = "generator" => r.gen_obj.state = "exhausted"

\* the call is over (returned or raised): its outcome stays visible in the
\* task until the event loop takes over again
Done(t, r, status) ==
    /\ tk' = [tk EXCEPT ![t] = [r EXCEPT !.pc = "done", !.status = status]]
    /\ running' = t

Summary(r) ==
    IF r.caching = "True"
    THEN [valid |-> TRUE, llm |-> r.llm, prompt |-> r.prompt, stream |-> r.stream,
          good |-> r.status = "ok" /\ Drained(r), prov |-> r.prov,
          result |-> IF r.status = "ok" /\ Drained(r) THEN Result(r) ELSE NoEntry]
    ELSE NoCall

----------------------------------------------------------------------------
\* gen lines 110-138 and __call__ lines 258-275: a program run reaches its
\* gen tag and calls the session; the key is computed
StartCall(t, l, p, s, c) ==
    /\ running = 0
    /\ tk[t].pc = "idle"
    /\ \A u \in Tasks : ~InCall(u)            \* program runs follow one another
    /\ ncalls < MaxCalls
    /\ ncalls' = ncalls + 1
    /\ running' = t
    /\ tk' = [tk EXCEPT ![t] =
                 [IdleTask EXCEPT !.pc = "lookup", !.llm = l, !.prompt = p,
                                  !.stream = s, !.caching = c,
                                  !.key = CacheKey(p, s, c),
                                  !.pred = lastDone]]
    /\ UNCHANGED <<cache, call_history, now, lastDone>>
    /\ UNCHANGED <<openai, llm, genVars, infVars, runVars>>

\* __call__ lines 277-285: fallback to the non-streaming key, cache check
Lookup(t) ==
    /\ running = t
    /\ tk[t].pc = "lookup"
    /\ LET r == tk[t]
           key == FallbackKey(r.key, CacheKey(r.prompt, FALSE, r.caching), r.stream)
           hit == InCache(key) /\ (r.caching = "True" \/ (r.caching = "None" /\ llm_caching[r.llm]))
       IN tk' = [tk EXCEPT ![t] =
                   [r EXCEPT !.key = key, !.hit = hit,
                             !.pc = IF NeedsCall(key, r.caching, r.llm)
                                    THEN "ratelimit" ELSE "ret"]]
    /\ UNCHANGED <<cache, call_history, now, running, lastDone, ncalls>>
    /\ UNCHANGED <<openai, llm, genVars, infVars, runVars>>

\* __call__ lines 287-291: count_calls() prunes the deque; sleep(1) while over
RateLimit(t) ==
    /\ running = t
    /\ tk[t].pc = "ratelimit"
    /\ LET r == tk[t]
           h == count_calls_prune(call_history[r.llm], now)
       IN /\ call_history' = [call_history EXCEPT ![r.llm] = h]
          /\ IF RateLimited(Len(h))
             THEN /\ tk' = [tk EXCEPT ![t] = [r EXCEPT !.pc = "sleep1",
                                                      !.wake = now + RateSleep,
                                                      !.waited = TRUE]]
                  /\ running' = 0
             ELSE /\ tk' = [tk EXCEPT ![t] = [r EXCEPT !.pc = "add_call",
                                                      !.fail_count = 0]]
                  /\ running' = t
    /\ UNCHANGED <<cache, now, lastDone, ncalls>>
    /\ UNCHANGED <<openai, llm, genVars, infVars, runVars>>

\* asyncio.sleep(1) is over: back to the while condition
WakeRate(t) ==
    /\ running = 0
    /\ tk[t].pc = "sleep1"
    /\ now >= tk[t].wake
    /\ running' = t
    /\ tk' = [tk EXCEPT ![t].pc = "ratelimit", ![t].wake = 0]
    /\ UNCHANGED <<cache, call_history, now, lastDone, ncalls>>
    /\ UNCHANGED <<openai, llm, genVars, infVars, runVars>>

\* __call__ line 295: self.llm.add_call()
AddCall(t) ==
    /\ running = t
    /\ tk[t].pc = "add_call"
    /\ LET r == tk[t]
           h == add_call(call_history[r.llm], now)
       IN /\ call_history' = [call_history EXCEPT ![r.llm] = h]
          /\ tk' = [tk EXCEPT ![t] =
                      [r EXCEPT !.pc = "caller",
                                !.stamps = r.stamps + Len(h) - Len(call_history[r.llm])]]
    /\ UNCHANGED <<cache, now, running, lastDone, ncalls>>
    /\ UNCHANGED <<openai, llm, genVars, infVars, runVars>>

\* __call__ lines 296-310: the provider answers
CallerOk(t) ==
    /\ running = t
    /\ tk[t].pc = "caller"
    /\ \E text \in Texts :
          LET r == tk[t]
              out == IF r.stream THEN Generator(r.key) ELSE Resp(text)
          IN tk' = [tk EXCEPT ![t] = [r EXCEPT !.pc = "store", !.out = out,
                                               !.prov = r.prov + 1, !.err = "none",
                                               !.prev_key = openai.api_key,
                                               !.prev_org = openai.organization]]
    /\ openai' = library_call(openai, tk[t].llm, FALSE)
    /\ UNCHANGED <<cache, call_history, now, running, lastDone, ncalls>>
    /\ UNCHANGED <<llm, genVars, infVars, runVars>>

\* __call__ lines 310-315: the provider raises
CallerRaise(t, e) ==
    /\ running = t
    /\ tk[t].pc = "caller"
    /\ LET r == [tk[t] EXCEPT !.prov = tk[t].prov + 1, !.err = e,
                               !.prev_key = openai.api_key,
                               !.prev_org = openai.organization]
       IN IF Caught(e)
          THEN /\ tk' = [tk EXCEPT ![t] = [r EXCEPT !.pc = "backoff",
                                                   !.wake = now + Backoff]]
               /\ running' = 0
          ELSE Done(t, r, "ProviderError")
    /\ openai' = library_call(openai, tk[t].llm, TRUE)
    /\ UNCHANGED <<cache, call_history, now, lastDone, ncalls>>
    /\ UNCHANGED <<llm, genVars, infVars, runVars>>

\* __call__ lines 313-321: asyncio.sleep(3) is over; count the failure
WakeBackoff(t) ==
    /\ running = 0
    /\ tk[t].pc = "backoff"
    /\ now >= tk[t].wake
    /\ LET r == [tk[t] EXCEPT !.fail_count = tk[t].fail_count + 1, !.wake = 0]
       IN IF RetryExhausted(r.fail_count)
          THEN Done(t, r, "RetryExhausted")
          ELSE /\ tk' = [tk EXCEPT ![t] = [r EXCEPT !.pc = "add_call"]]
               /\ running' = t
    /\ UNCHANGED <<cache, call_history, now, lastDone, ncalls>>
    /\ UNCHANGED <<openai, llm, genVars, infVars, runVars>>

\* __call__ lines 323-326: hand out the stream, or store the response
Store(t) ==
    /\ running = t
    /\ tk[t].pc = "store"
    /\ LET r == tk[t]
       IN IF r.stream
          THEN /\ tk' = [tk EXCEPT ![t] = [r EXCEPT !.pc = "gen", !.ret = r.out]]
               /\ UNCHANGED cache
          ELSE /\ cache' = CacheWrite(cache, r.key, r.out)
               /\ tk' = [tk EXCEPT ![t] = [r EXCEPT !.pc = "ret", !.wrote = TRUE]]
    /\ UNCHANGED <<call_history, now, running, lastDone, ncalls>>
    /\ UNCHANGED <<openai, llm, genVars, infVars, runVars>>

\* __call__ lines 328-334: return the cache entry
Ret(t) ==
    /\ running = t
    /\ tk[t].pc = "ret"
    /\ tk' = [tk EXCEPT ![t].pc = "gen",
                        ![t].ret = WrapResult(cache[tk[t].key], tk[t].stream)]
    /\ UNCHANGED <<cache, call_history, now, running, lastDone, ncalls>>
    /\ UNCHANGED <<openai, llm, genVars, infVars, runVars>>

\* gen lines 140-151: partial_output(prefix), wrap a non-streamed response
GenBegin(t) ==
    /\ running = t
    /\ tk[t].pc = "gen"
    /\ LET r == tk[t]
       IN tk' = [tk EXCEPT ![t] = [r EXCEPT !.pc = "for",
                                           !.generated_value = <<>>,
                                           !.output = Append(r.output, <<>>),
                                           !.gen_obj = GenWrap(r.ret, r.stream),
                                           !.pos = 0,
                                           \* the locals of __call__ are gone
                                           !.fail_count = 0, !.out = NoEntry,
                                           !.err = "none", !.stamps = 0,
                                           !.waited = FALSE]]
    /\ UNCHANGED <<cache, call_history, now, running, lastDone, ncalls>>
    /\ UNCHANGED <<openai, llm, genVars, infVars, runVars>>

\* gen line 152 over a list: next element, then "await asyncio.sleep(0)"
ForList(t) ==
    /\ running = t
    /\ tk[t].pc = "for"
    /\ tk[t].gen_obj.kind = "list"
    /\ LET r == tk[t]
       IN IF r.pos < Len(r.gen_obj.items)
          THEN /\ tk' = [tk EXCEPT ![t] = [r EXCEPT !.pc = "yield0", !.pos = r.pos + 1,
                                                   !.resp = r.gen_obj.items[r.pos + 1]]]
               /\ running' = 0
          ELSE /\ tk' = [tk EXCEPT ![t] = [r EXCEPT !.pc = "finish"]]
               /\ running' = t
    /\ UNCHANGED <<cache, call_history, now, lastDone, ncalls>>
    /\ UNCHANGED <<openai, llm, genVars, infVars, runVars>>

\* gen line 152 over stream_then_save (lines 146-151): the provider yields
\* one more chunk
ForStreamChunk(t) ==
    /\ running = t
    /\ tk[t].pc = "for"
    /\ tk[t].gen_obj.kind = "generator"
    /\ Len(tk[t].gen_obj.list_out) < MaxChunks
    /\ LET r == tk[t]
           d == DeltaAt(Len(r.gen_obj.list_out) + 1)
           g == [r.gen_obj EXCEPT !.list_out = Append(r.gen_obj.list_out, Chunk(d))]
       IN tk' = [tk EXCEPT ![t] = [r EXCEPT !.pc = "yield0", !.gen_obj = g,
                                           !.resp = Chunk(d)]]
    /\ running' = 0
    /\ UNCHANGED <<cache, call_history, now, lastDone, ncalls>>
    /\ UNCHANGED <<openai, llm, genVars, infVars, runVars>>

\* stream_then_save line 152: the provider's stream ends, the list is saved
ForStreamEnd(t) ==
    /\ running = t
    /\ tk[t].pc = "for"
    /\ tk[t].gen_obj.kind = "generator"
    /\ LET r == tk[t]
           g == [r.gen_obj EXCEPT !.state = "exhausted"]
       IN /\ cache' = [cache EXCEPT ![g.key] = List(g.list_out)]
          /\ tk' = [tk EXCEPT ![t] = [r EXCEPT !.pc = "finish", !.gen_obj = g,
                                              !.wrote = TRUE]]
    /\ UNCHANGED <<call_history, now, running, lastDone, ncalls>>
    /\ UNCHANGED <<openai, llm, genVars, infVars, runVars>>

\* gen lines 153-157: the task is resumed after sleep(0) and polls should_stop
Resume(t) ==
    /\ running = 0
    /\ tk[t].pc = "yield0"
    /\ running' = t
    /\ LET r == tk[t]
       IN IF ShouldBreak(r.should_stop)
          THEN tk' = [tk EXCEPT ![t] = [r EXCEPT !.pc = "finish"]]
          ELSE tk' = [tk EXCEPT ![t] = [r EXCEPT !.pc = "append"]]
    /\ UNCHANGED <<cache, call_history, now, lastDone, ncalls>>
    /\ UNCHANGED <<openai, llm, genVars, infVars, runVars>>

\* gen lines 159-172: append the delta to the value, the output, the variable.
\* A response that is itself a list has no "choices": TypeError.
AppendDelta(t) ==
    /\ running = t
    /\ tk[t].pc = "append"
    /\ LET r == tk[t]
       IN IF r.resp.kind = "resp"
          THEN /\ tk' = [tk EXCEPT ![t] =
                           [r EXCEPT !.pc = "for",
                                     !.generated_value = r.generated_value \o r.resp.text,
                                     !.output = Append(r.output, r.resp.text),
                                     !.variable = r.generated_value \o r.resp.text]]
               /\ UNCHANGED running
          ELSE Done(t, r, "TypeError")
    /\ UNCHANGED <<cache, call_history, now, lastDone, ncalls>>
    /\ UNCHANGED <<openai, llm, genVars, infVars, runVars>>

\* gen lines 173-192: close an open generator (GeneratorExit: nothing is
\* saved), partial_output(suffix), set the variable, honour should_stop
Finish(t) ==
    /\ running = t
    /\ tk[t].pc = "finish"
    /\ LET r == tk[t]
           closing == r.gen_obj.kind = "generator" /\ r.gen_obj.state = "open"
           g == IF closing THEN [r.gen_obj EXCEPT !.state = "closed"] ELSE r.gen_obj
           fin == [r EXCEPT !.gen_obj = g,
                            !.output = Append(r.output, <<>>),
                            !.variable = r.generated_value,
                            !.executing = IF r.should_stop THEN FALSE ELSE r.executing,
                            !.should_stop = FALSE]
       IN /\ Done(t, fin, "ok")
          /\ cache' = IF closing THEN stream_then_save_close(cache, r.gen_obj) ELSE cache
    /\ UNCHANGED <<call_history, now, lastDone, ncalls>>
    /\ UNCHANGED <<openai, llm, genVars, infVars, runVars>>

\* the coroutine is gone: the event loop takes over, the run's state is dropped
Exit(t) ==
    /\ running = t
    /\ tk[t].pc = "done"
    /\ running' = 0
    /\ lastDone' = Summary(tk[t])
    /\ tk' = [tk EXCEPT ![t] = IdleTask]
    /\ UNCHANGED <<cache, call_history, now, ncalls>>
    /\ UNCHANGED <<openai, llm, genVars, infVars, runVars>>

\* Program._interface_event: the front end's stop event reaches the executor
\* of an executing program; it is delivered by the event loop
Stop(t) ==
    /\ running = 0
    /\ InCall(t)
    /\ ~tk[t].should_stop
    /\ tk' = [tk EXCEPT ![t].should_stop = TRUE, ![t].stopped = TRUE,
                        ![t].snap = tk[t].generated_value]
    /\ UNCHANGED <<cache, call_history, now, running, lastDone, ncalls>>
    /\ UNCHANGED <<openai, llm, genVars, infVars, runVars>>

\* The clock.  Time is read by count_calls, add_call and the timed sleeps
\* only, so it advances, while a task waits on a timer, from one instant
\* that matters to the next: the end of a backoff, or the instant the oldest
\* timestamp of a deque leaves the window.
TimeMatters ==
    \E t \in Tasks : tk[t].pc \in {"sleep1", "backoff"} /\ now < tk[t].wake

Instants ==
    {tk[t].wake : t \in {u \in Tasks : tk[u].pc = "backoff"}}
    \cup {call_history[l][1] + Window + 1 : l \in {m \in LLMs : call_history[m] # <<>>}}

Tick(to) ==
    /\ running = 0
    /\ TimeMatters
    /\ to \in Instants
    /\ to > now
    /\ \A other \in Instants : other > now => to <= other
    /\ now' = to
    /\ UNCHANGED <<cache, call_history, running, tk, lastDone, ncalls>>
    /\ UNCHANGED <<openai, llm, genVars, infVars, runVars>>

Next ==
    \/ \E t \in Tasks, l \in LLMs, p \in Prompts, s \in BOOLEAN :
          \E c \in CachingsOf(l) : StartCall(t, l, p, s, c)
    \/ \E t \in Tasks : Lookup(t)
    \/ \E t \in Tasks : RateLimit(t)
    \/ \E t \in Tasks : WakeRate(t)
    \/ \E t \in Tasks : AddCall(t)
    \/ \E t \in Tasks : CallerOk(t)
    \/ \E t \in Tasks : CallerRaise(t, "RateLimitError")
    \/ \E t \in Tasks : CallerRaise(t, "APIError")
    \/ \E t \in Tasks : WakeBackoff(t)
    \/ \E t \in Tasks : Store(t)
    \/ \E t \in Tasks : Ret(t)
    \/ \E t \in Tasks : GenBegin(t)
    \/ \E t \in Tasks : ForList(t)
    \/ \E t \in Tasks : ForStreamChunk(t)
    \/ \E t \in Tasks : ForStreamEnd(t)
    \/ \E t \in Tasks : Resume(t)
    \/ \E t \in Tasks : AppendDelta(t)
    \/ \E t \in Tasks : Finish(t)
    \/ \E t \in Tasks : Exit(t)
    \/ \E t \in Tasks : Stop(t)
    \/ \E to \in Instants : Tick(to)

Spec == Init /\ [][Next]_vars


----------------------------------------------------------------------------
\* Stop inference of gen (_gen.py lines 67-108).  A text is a sequence of
\* lexical units: one character each, except that "{{", "}}", a role name
\* and the role end token are one unit; "dq" is the double quote and
\* "bq" the backquote character.

\* Bound of the model: number of pieces a following text is made of
MaxPieces == 2

None == <<"None">>
Roles == {"user", "assistant", "system", "role"}
WordChars == {"t", "x"} \cup Roles
Whitespace == {" "}
TagNames == {<<"t">>}

OpenTag(name) == <<"<">> \o name \o <<">">>
CloseTag(name) == <<"<", "/">> \o name \o <<">">>
RoleClose(a, role, b) == <<"{{">> \o a \o <<"/", role>> \o b \o <<"}}">>
Tildes == {<<>>, <<"~">>}

Pieces ==
    { <<"'", "'", "'">>, <<"'">>, <<"dq">>, <<" ">>, <<"x">>,
      OpenTag(<<"t">>), CloseTag(<<"t">>), <<"<", "t", " ", "x", ">">>,
      RoleClose(<<>>, "user", <<>>), RoleClose(<<"~">>, "assistant", <<"~">>),
      RoleClose(<<>>, "x", <<>>) }

RECURSIVE TextsOf(_)
TextsOf(n) ==
    IF n = 0 THEN {<<>>}
    ELSE TextsOf(n - 1) \cup {a \o b : a \in TextsOf(n - 1), b \in Pieces}

NextTexts == TextsOf(MaxPieces)
PrevTexts == {<<>>, <<"x">>, <<"x", "'">>, <<"'", "'", "'">>, <<"x", "dq">>}
\* next_next_node: absent, or a node with this text
NextNextTexts ==
    {None, RoleClose(<<"~">>, "user", <<>>), RoleClose(<<>>, "user", <<>>),
     RoleClose(<<"~">>, "x", <<>>)}
StopArgs == {None, <<"x">>}

startswith(text, pre) ==
    Len(pre) <= Len(text) /\ SubSeq(text, 1, Len(pre)) = pre

endswith(text, suf) ==
    Len(suf) <= Len(text) /\ SubSeq(text, Len(text) - Len(suf) + 1, Len(text)) = suf

RECURSIVE lstrip(_)
lstrip(text) ==
    IF text # <<>> /\ Head(text) \in Whitespace THEN lstrip(Tail(text)) ELSE text

next_text_of_Raw(next, next_next) == next

next_text_of_StripOnly(next, next_next) ==
    IF next_next # None /\ startswith(next_next, <<"{{", "~">>)
    THEN lstrip(next)
    ELSE next

\* lines 70-77: the text after the tag, with whitespace control
next_text_of(next, next_next) ==
    IF next_next # None /\ startswith(next_next, <<"{{", "~">>)
    THEN IF lstrip(next) = <<>> THEN next_next ELSE lstrip(next)
    ELSE next

quote_types_SingleFirst ==
    << <<"'">>, <<"dq">>, <<"bq">>,
       <<"'", "'", "'">>, <<"dq", "dq", "dq">>, <<"bq", "bq", "bq">> >>

\* line 80
quote_types ==
    << <<"'", "'", "'">>, <<"dq", "dq", "dq">>, <<"bq", "bq", "bq">>,
       <<"dq">>, <<"'">>, <<"bq">> >>

QuoteMatches(i, next_text, prev_text) ==
    startswith(next_text, quote_types[i]) /\ endswith(prev_text, quote_types[i])

\* lines 81-84: the first quote type, in order, that matches
QuoteStop(next_text, prev_text) ==
    LET hits == {i \in 1..Len(quote_types) : QuoteMatches(i, next_text, prev_text)}
    IN IF hits = {} THEN None
       ELSE quote_types[CHOOSE i \in hits : \A j \in hits : i <= j]

RoleMatch_NoTilde(next_text) ==
    IF \E r \in Roles : startswith(next_text, RoleClose(<<>>, r, <<>>))
    THEN CHOOSE r \in Roles : startswith(next_text, RoleClose(<<>>, r, <<>>))
    ELSE "none"

\* lines 88-90: re.match(r"^{{~?/(user|assistant|system|role)~?}}.*"), m[1]
RoleMatch(next_text) ==
    LET ok(r) == \E a \in Tildes, b \in Tildes : startswith(next_text, RoleClose(a, r, b))
    IN IF \E r \in Roles : ok(r) THEN CHOOSE r \in Roles : ok(r) ELSE "none"

\* OpenAI.role_end
role_end(role) == <<"<|im_end|>">>

\* line 95: re.match(r"<([^>\W]+)[^>]+>"), the lengths group 1 may have: a
\* run of word characters after "<", then at least one character that is
\* not ">", then ">"
XmlNameLens(next_text) ==
    {k \in 1..Len(next_text) :
        /\ next_text[1] = "<"
        /\ k + 2 <= Len(next_text)
        /\ \A i \in 2..(k + 1) : next_text[i] \in WordChars
        /\ next_text[k + 2] # ">"
        /\ \E q \in (k + 3)..Len(next_text) : next_text[q] = ">"}

\* lines 95-99: group 1 is matched greedily; the stop is the end tag when the
\* text starts with it
XmlStop(next_text) ==
    LET lens == XmlNameLens(next_text)
        k == CHOOSE n \in lens : \A o \in lens : o <= n
        end_tag == CloseTag(SubSeq(next_text, 2, k + 1))
    IN IF lens # {} /\ startswith(next_text, end_tag) THEN end_tag ELSE None

InfInit ==
    /\ inf \in [pc : {"quote"}, stop : StopArgs, arg : StopArgs, prev : PrevTexts,
                next : NextTexts, next_next : NextNextTexts, chat_mode : BOOLEAN,
                next_text : {None}]
    /\ inf.stop = inf.arg
    /\ program = Off /\ runs = Off /\ heap = Off /\ llm_cache = Off /\ caller = Off
    /\ cache = [k \in Keys |-> NoEntry]
    /\ call_history = [l \in LLMs |-> <<>>]
    /\ EnvCredentials
    /\ now = 0 /\ running = 0
    /\ tk = [t \in Tasks |-> IdleTask]
    /\ lastDone = NoCall /\ ncalls = 0
    /\ gen = Off /\ variables = Off /\ prefix = Off /\ parser = Off /\ ngens = 0

\* lines 68-84
QuoteRule ==
    /\ inf.pc = "quote"
    /\ IF inf.stop = None
       THEN LET nt == next_text_of(inf.next, inf.next_next)
            IN inf' = [inf EXCEPT !.pc = "role", !.next_text = nt,
                                  !.stop = QuoteStop(nt, inf.prev)]
       ELSE inf' = [inf EXCEPT !.pc = "role"]
    /\ UNCHANGED <<callVars, genVars, runVars>>

\* lines 87-91
RoleRule ==
    /\ inf.pc = "role"
    /\ IF inf.stop = None /\ RoleMatch(inf.next_text) # "none"
       THEN IF inf.chat_mode
            THEN inf' = [inf EXCEPT !.pc = "xml",
                                    !.stop = role_end(RoleMatch(inf.next_text))]
            ELSE inf' = [inf EXCEPT !.pc = "failed"]      \* assert self.chat_mode
       ELSE inf' = [inf EXCEPT !.pc = "xml"]
    /\ UNCHANGED <<callVars, genVars, runVars>>

\* lines 94-99
XmlRule ==
    /\ inf.pc = "xml"
    /\ IF inf.stop = None
       THEN inf' = [inf EXCEPT !.pc = "fallback", !.stop = XmlStop(inf.next_text)]
       ELSE inf' = [inf EXCEPT !.pc = "fallback"]
    /\ UNCHANGED <<callVars, genVars, runVars>>

\* lines 102-108: the stop argument of the model call
Fallback ==
    /\ inf.pc = "fallback"
    /\ LET st == IF inf.stop = None THEN inf.next_text ELSE inf.stop
       IN inf' = [inf EXCEPT !.pc = "ready", !.stop = IF st = <<>> THEN None ELSE st]
    /\ UNCHANGED <<callVars, genVars, runVars>>

InfNext == QuoteRule \/ RoleRule \/ XmlRule \/ Fallback

InfSpec == InfInit /\ [][InfNext]_vars

----------------------------------------------------------------------------
\* The gen handler (_gen.py lines 118-232) on its own: the session call is
\* an await that hands back the provider's response.  One gen tag is
\* executed up to MaxGens times in a run (a tag in a loop): its arguments are
\* those of the tag; the provider's answers and the stop event vary.

\* Bounds of the model
MaxGens == 2
MaxN == 3

\* values of the variable store
Undefined == [kind |-> "undefined"]
Str(text) == [kind |-> "str", v |-> text]
Lst(items) == [kind |-> "list", v |-> items]

\* VariableStore.get: the stored object itself, or the default
get_variable(stored, default) == IF stored = Undefined THEN default ELSE stored
\* VariableStore.set
set_variable(stored, value) == value

\* lines 58-59
gen_prefix == <<>>
gen_suffix == <<>>

\* lines 118-124
stream_generation(n, program_stream) == IF n = 1 THEN program_stream ELSE FALSE

\* what partial_output is given: a text, or the block of n > 1 completions
Fragment(text) == [kind |-> "text", v |-> text]
ManyFragment(toks) == [kind |-> "many", toks |-> toks]
partial_output(buffer, fragment) == Append(buffer, fragment)

\* the pieces of the block of lines 220-231
StartMarker(shown, l, id) == [t |-> "start", shown |-> shown, l |-> l, id |-> id]
IndexMarker(shown, i, id) == [t |-> "marker", shown |-> shown, i |-> i, id |-> id]
EndMarker(id) == [t |-> "end", id |-> id]
OpenComment == [t |-> "open"]
CloseComment == [t |-> "close"]
PlainText(value) == [t |-> "text", v |-> value]
\* escape_template_block(value)
Escaped(value) == [t |-> "escaped", v |-> value]

extend_Replaces(generated_value, text) == text

extend_Prepends(generated_value, text) == text \o generated_value

\* line 159: generated_value += text
extend(generated_value, text) == generated_value \o text

with_suffix_Drops(generated_value) == gen_suffix

\* line 175: generated_value += suffix
with_suffix(generated_value) == generated_value \o gen_suffix

generated_values_Reversed(choices) ==
    [i \in 1..Len(choices) |-> gen_prefix \o choices[Len(choices) + 1 - i] \o gen_suffix]

\* line 195
generated_values(choices) ==
    [i \in 1..Len(choices) |-> gen_prefix \o choices[i] \o gen_suffix]

ClosesBefore_First(i) == i > 0

\* line 224: the comment of the completion before is closed
ClosesBefore(i) == i > 1

\* lines 223-230, for the values from index i (counted from 0) on
RECURSIVE ManyOut(_, _, _)
ManyOut(values, i, id) ==
    IF i >= Len(values) THEN <<>>
    ELSE (IF ClosesBefore(i) THEN <<CloseComment>> ELSE <<>>)
         \o (IF i > 0
             THEN <<IndexMarker(TRUE, i, id), OpenComment, Escaped(values[i + 1])>>
             ELSE <<PlainText(values[i + 1])>>)
         \o ManyOut(values, i + 1, id)

\* lines 220-231: the fragment given to partial_output
ManyBlock(values, id) ==
    <<StartMarker(TRUE, Len(values), id)>> \o ManyOut(values, 0, id)
        \o <<CloseComment, EndMarker(id)>>

\* the provider's answer: with n = 1 a text of 1..MaxChunks deltas, streamed
\* one delta a chunk or given whole; with n > 1 the n choices "a", "b", ...
Responses(n, stream) ==
    IF n = 1
    THEN IF stream
         THEN {[i \in 1..k |-> <<DeltaAt(i)>>] : k \in 1..MaxChunks}
         ELSE {<<[i \in 1..k |-> DeltaAt(i)]>> : k \in 1..MaxChunks}
    ELSE {[i \in 1..n |-> <<DeltaAt(i)>>]}

NoGen == [valid |-> FALSE]

IdleGen ==
    [pc |-> "idle", resp |-> <<>>, pos |-> 0, generated_value |-> <<>>,
     value_list |-> <<>>, alias |-> FALSE,
     \* history of the handler
     status |-> "none", before |-> Undefined, pre |-> <<>>, yields |-> 0,
     observed |-> FALSE, id |-> 0, last |-> NoGen]

GenTags ==
    [n : 1..MaxN, program_stream : BOOLEAN, list_append : BOOLEAN,
     parse : BOOLEAN, hidden : BOOLEAN]

GenInit ==
    /\ \E tag \in GenTags :
          /\ tag.n > 1 => ~tag.program_stream
          /\ gen = IdleGen @@
                   [tag |-> tag, stream |-> stream_generation(tag.n, tag.program_stream)]
    /\ variables \in {Undefined, Lst(<<Str(<<"z">>)>>)}
    /\ prefix = <<>>
    /\ parser = [executing |-> TRUE, should_stop |-> FALSE]
    /\ ngens = 0
    /\ inf = Off
    /\ program = Off /\ runs = Off /\ heap = Off /\ llm_cache = Off /\ caller = Off
    /\ cache = [k \in Keys |-> NoEntry]
    /\ call_history = [l \in LLMs |-> <<>>]
    /\ EnvCredentials
    /\ now = 0 /\ running = 0
    /\ tk = [t \in Tasks |-> IdleTask]
    /\ lastDone = NoCall /\ ncalls = 0

GenFrame == UNCHANGED <<callVars, infVars, runVars>>

\* lines 134-138: the executor reaches the tag, gen awaits the session
GenStart ==
    /\ gen.pc = "idle"
    /\ parser.executing
    /\ ngens < MaxGens
    /\ ngens' = ngens + 1
    /\ gen' = [gen EXCEPT !.pc = "call", !.before = variables, !.pre = prefix,
                          !.id = ngens + 1, !.last = NoGen]
    /\ UNCHANGED <<variables, prefix, parser>>
    /\ GenFrame

\* the session call returns the response
GenCall(resp) ==
    /\ gen.pc = "call"
    /\ resp \in Responses(gen.tag.n, gen.stream)
    /\ gen' = [gen EXCEPT !.pc = IF gen.tag.n = 1 THEN "one" ELSE "many",
                          !.resp = resp]
    /\ UNCHANGED <<variables, prefix, parser, ngens>>
    /\ GenFrame

\* value_list[-1] = value
SetLast(value_list, value) == [value_list EXCEPT ![Len(value_list)] = value]

\* lines 140-151, n == 1: partial_output(prefix); with list_append the list
\* of the variable (the stored object, or a new one) gets an empty entry
GenOneBegin ==
    /\ gen.pc = "one"
    /\ LET stored == get_variable(variables, Lst(<<>>))
           value_list == Append(stored.v, Str(<<>>))
       IN IF gen.tag.list_append
          THEN /\ gen' = [gen EXCEPT !.pc = "for", !.generated_value = gen_prefix,
                                     !.value_list = value_list,
                                     !.alias = variables # Undefined]
               /\ variables' = IF variables # Undefined THEN Lst(value_list)
                               ELSE variables
          ELSE /\ gen' = [gen EXCEPT !.pc = "for", !.generated_value = gen_prefix]
               /\ UNCHANGED variables
    /\ prefix' = partial_output(prefix, Fragment(gen_prefix))
    /\ UNCHANGED <<parser, ngens>>
    /\ GenFrame

\* lines 152-153: the next response is taken and the handler yields
GenFor ==
    /\ gen.pc = "for"
    /\ gen.pos < Len(gen.resp)
    /\ gen' = [gen EXCEPT !.pc = "yield0", !.yields = gen.yields + 1]
    /\ UNCHANGED <<variables, prefix, parser, ngens>>
    /\ GenFrame

\* line 152: the responses are exhausted
GenForEnd ==
    /\ gen.pc = "for"
    /\ gen.pos = Len(gen.resp)
    /\ gen' = [gen EXCEPT !.pc = "after"]
    /\ UNCHANGED <<variables, prefix, parser, ngens>>
    /\ GenFrame

\* lines 153-157: resumed after sleep(0), the handler polls should_stop
GenResume ==
    /\ gen.pc = "yield0"
    /\ IF ShouldBreak(parser.should_stop)
       THEN gen' = [gen EXCEPT !.pc = "after", !.observed = TRUE]
       ELSE gen' = [gen EXCEPT !.pc = "append"]
    /\ UNCHANGED <<variables, prefix, parser, ngens>>
    /\ GenFrame

\* lines 159-172: the delta goes to the buffer, the output and the variable
GenAppend ==
    /\ gen.pc = "append"
    /\ LET text == gen.resp[gen.pos + 1]
           gv == extend(gen.generated_value, text)
           value_list == SetLast(gen.value_list, Str(gv))
       IN /\ prefix' = partial_output(prefix, Fragment(text))
          /\ IF gen.tag.list_append
             THEN /\ variables' = set_variable(variables, Lst(value_list))
                  /\ gen' = [gen EXCEPT !.pc = "for", !.pos = gen.pos + 1,
                                        !.generated_value = gv,
                                        !.value_list = value_list, !.alias = TRUE]
             ELSE /\ variables' = set_variable(variables, Str(gv))
                  /\ gen' = [gen EXCEPT !.pc = "for", !.pos = gen.pos + 1,
                                        !.generated_value = gv]
    /\ UNCHANGED <<parser, ngens>>
    /\ GenFrame

\* lines 173-181: the generator is closed, the suffix and the final value
GenAfter ==
    /\ gen.pc = "after"
    /\ LET gv == with_suffix(gen.generated_value)
           value_list == SetLast(gen.value_list, Str(gv))
       IN /\ prefix' = partial_output(prefix, Fragment(gen_suffix))
          /\ IF gen.tag.list_append
             THEN /\ variables' = set_variable(variables, Lst(value_list))
                  /\ gen' = [gen EXCEPT !.pc = "tail", !.generated_value = gv,
                                        !.value_list = value_list, !.alias = TRUE]
             ELSE /\ variables' = set_variable(variables, Str(gv))
                  /\ gen' = [gen EXCEPT !.pc = "tail", !.generated_value = gv]
    /\ UNCHANGED <<parser, ngens>>
    /\ GenFrame

\* lines 183-186: parse.  The assert fails with hidden; else the generated
\* text, a literal, is parsed and visited, and gen returns
GenParse ==
    /\ gen.pc = "tail"
    /\ gen.tag.parse
    /\ gen' = [gen EXCEPT !.pc = "done",
                          !.status = IF gen.tag.hidden THEN "AssertionError" ELSE "ok"]
    /\ UNCHANGED <<variables, prefix, parser, ngens>>
    /\ GenFrame

\* lines 187-192: an interrupted run is no longer executing
GenReturn ==
    /\ gen.pc = "tail"
    /\ ~gen.tag.parse
    /\ parser' = IF parser.should_stop
                 THEN [executing |-> FALSE, should_stop |-> FALSE]
                 ELSE parser
    /\ gen' = [gen EXCEPT !.pc = "done", !.status = "ok"]
    /\ UNCHANGED <<variables, prefix, ngens>>
    /\ GenFrame

\* line 210
EmitsOutput(hidden) == ~hidden

\* lines 193-232, n > 1: the variable, then the block of the completions
GenMany ==
    /\ gen.pc = "many"
    /\ LET values == generated_values(gen.resp)
           entry == Lst([i \in 1..Len(values) |-> Str(values[i])])
           stored == get_variable(variables, Lst(<<>>))
       IN /\ variables' =
                IF gen.tag.list_append
                THEN IF variables # Undefined
                     THEN Lst(Append(stored.v, entry))  \* the stored list grows
                     ELSE variables                     \* the default list is dropped
                ELSE set_variable(variables, entry)
          /\ prefix' = IF EmitsOutput(gen.tag.hidden)
                       THEN partial_output(prefix, ManyFragment(ManyBlock(values, gen.id)))
                       ELSE prefix
    /\ gen' = [gen EXCEPT !.pc = "done", !.status = "ok"]
    /\ UNCHANGED <<parser, ngens>>
    /\ GenFrame

\* the executor, after a hidden tag: what the tag gave to partial_output is
\* kept out of the buffer that is the context of later model calls
HideOutput(buffer, pre, hidden) == IF hidden THEN pre ELSE buffer

\* the handler has returned or raised; the executor goes on, or halts the run
GenExit ==
    /\ gen.pc = "done"
    /\ prefix' = IF gen.status = "ok"
                 THEN HideOutput(prefix, gen.pre, gen.tag.hidden) ELSE prefix
    /\ parser' = IF gen.status = "ok" THEN parser
                 ELSE [parser EXCEPT !.executing = FALSE]
    /\ gen' = [IdleGen EXCEPT !.last = [valid |-> TRUE, status |-> gen.status,
                                        pre |-> gen.pre,
                                        value |-> gen.generated_value]]
              @@ [tag |-> gen.tag, stream |-> gen.stream]
    /\ UNCHANGED <<variables, ngens>>
    /\ GenFrame

\* Program._interface_event: a stop event arrives while the handler is
\* suspended
GenStop ==
    /\ gen.pc \in {"call", "yield0"}
    /\ ~parser.should_stop
    /\ parser' = [parser EXCEPT !.should_stop = TRUE]
    /\ UNCHANGED <<gen, variables, prefix, ngens>>
    /\ GenFrame

GenNext ==
    \/ GenStart
    \/ \E resp \in Responses(gen.tag.n, gen.stream) : GenCall(resp)
    \/ GenOneBegin
    \/ GenFor
    \/ GenForEnd
    \/ GenResume
    \/ GenAppend
    \/ GenAfter
    \/ GenParse
    \/ GenReturn
    \/ GenMany
    \/ GenExit
    \/ GenStop

GenSpec == GenInit /\ [][GenNext]_vars

\* ---------------------------------------------------------------------------
\* Properties
\* ---------------------------------------------------------------------------

Last(h) == h[Len(h)]

AtDone(t) == tk[t].pc = "done"

\* the finished call of t repeats, with caching=True, the call finished just
\* before it: same instance, same prompt, same stream flag
Repeats(t) ==
    /\ AtDone(t)
    /\ tk[t].caching = "True"
    /\ tk[t].pred.valid
    /\ tk[t].pred.llm = tk[t].llm
    /\ tk[t].pred.prompt = tk[t].prompt
    /\ tk[t].pred.stream = tk[t].stream

\* C1 (as stated): two calls in sequence with identical parameters and
\* caching=True perform at most one provider call between them, and the second
\* returns the result stored by the first.
C1_OneProviderCall ==
    \A t \in Tasks : Repeats(t) =>
        /\ tk[t].pred.prov + tk[t].prov <= 1
        /\ tk[t].status = "ok"
        /\ tk[t].pred.good
        /\ Result(tk[t]) = tk[t].pred.result

\* C1 (amended): when the first of two identical caching=True calls returned
\* and, if streamed, was drained to its end, the second makes no provider call
\* and returns the stored result unchanged; the first makes at most
\* max_retries + 1 provider calls.
C1_RepeatServedFromCache ==
    \A t \in Tasks : Repeats(t) /\ tk[t].pred.good =>
        /\ tk[t].prov = 0
        /\ tk[t].hit
        /\ tk[t].status = "ok"
        /\ Result(tk[t]) = tk[t].pred.result
        /\ tk[t].pred.prov <= max_retries + 1

C1_Witness ==
    \E t \in Tasks : /\ Repeats(t) /\ tk[t].pred.good
                     /\ tk[t].stream /\ tk[t].pred.prov >= 1

\* C2: for every instance, no window of Window seconds holds more than
\* max_calls_per_min recorded call timestamps.
C2_WindowCeiling ==
    \A l \in LLMs : \A i \in 1..Len(call_history[l]) :
        Cardinality({j \in 1..Len(call_history[l]) :
                        /\ call_history[l][j] >= call_history[l][i]
                        /\ call_history[l][j] <= call_history[l][i] + Window})
            <= max_calls_per_min

\* C3: a call that has passed the rate check and is about to record its first
\* attempt sees strictly fewer than max_calls_per_min calls in the window.
C3_ProceedsBelowCeiling ==
    \A t \in Tasks :
        tk[t].pc = "add_call" /\ tk[t].fail_count = 0 /\ tk[t].prov = 0 =>
            Len(count_calls_prune(call_history[tk[t].llm], now)) < max_calls_per_min

\* C4: the failure counter counts the rate-limit rejections of the call, a
\* retry starts no sooner than Backoff seconds after the rejected attempt, the
\* call fails with retry exhaustion exactly when the counter exceeds
\* max_retries, it never invokes the provider more than max_retries + 1
\* times, and a failing call writes no cache entry.
C4_RetryBackoffExhaustion ==
    \A t \in Tasks :
        LET r == tk[t] IN
        /\ r.prov <= max_retries + 1
        /\ r.pc = "backoff" =>
              /\ r.err = "RateLimitError" /\ r.prov = r.fail_count + 1
              /\ r.wake = Last(call_history[r.llm]) + Backoff
        /\ r.pc \in {"add_call", "caller"} =>
              /\ r.prov = r.fail_count /\ r.fail_count <= max_retries
              /\ r.fail_count > 0 /\ r.stamps = r.prov =>
                    now >= Last(call_history[r.llm]) + Backoff
        /\ r.pc = "done" /\ r.status = "RetryExhausted" =>
              /\ r.fail_count = max_retries + 1 /\ r.prov = max_retries + 1
              /\ now >= Last(call_history[r.llm]) + Backoff
        /\ r.pc = "done" /\ r.status \in {"RetryExhausted", "ProviderError"} =>
              ~r.wrote

C4_Witness ==
    \E t \in Tasks : AtDone(t) /\ tk[t].status = "RetryExhausted"

\* C5: a provider error other than a rate-limit rejection ends the call at
\* once: the attempt is not repeated, no backoff is waited and nothing is
\* written to the cache.
C5_OtherErrorsPropagate ==
    \A t \in Tasks :
        LET r == tk[t] IN
        r.err = "APIError" =>
            /\ r.pc = "done" /\ r.status = "ProviderError"
            /\ r.prov = r.fail_count + 1
            /\ Last(call_history[r.llm]) = now
            /\ ~r.wrote

C5_Witness ==
    \E t \in Tasks : AtDone(t) /\ tk[t].status = "ProviderError"
                     /\ tk[t].fail_count >= 1

\* the caching argument of the call of r, with None resolved by the instance
CachingOn(r) == r.caching = "True" \/ (r.caching = "None" /\ llm_caching[r.llm])

\* C6: a call answered from the cache never reaches the rate check, records
\* no timestamp, never invokes the provider, leaves the cache as it is and
\* returns the stored entry.
C6_CacheHitBypasses ==
    \A t \in Tasks :
        LET r == tk[t] IN
        r.hit =>
            /\ r.pc \in {"ret", "gen", "for", "yield0", "append", "finish", "done"}
            /\ r.prov = 0 /\ r.stamps = 0 /\ ~r.waited /\ ~r.wrote
            /\ r.pc # "ret" => r.ret = WrapResult(cache[r.key], r.stream)

C6_Witness ==
    \E t \in Tasks : /\ AtDone(t) /\ tk[t].hit /\ tk[t].stream
                     /\ tk[t].status = "ok" /\ Len(call_history[tk[t].llm]) > 0

\* C7: a call with stream=False never returns a list of chunks, the value a
\* streamed call stores.
C7_NoStreamedEntryForNonStream ==
    \A t \in Tasks : ~tk[t].stream => tk[t].ret.kind # "list"

\* C8: a streamed provider response is stored exactly when its stream is
\* drained to the end, and then holds every chunk; a stream abandoned before
\* its end stores nothing; a repeat of a drained caching=True call makes no
\* provider call and returns the stored chunks.
C8_StreamStoredOnDrain ==
    \A t \in Tasks :
        LET r == tk[t] g == tk[t].gen_obj IN
        /\ g.kind = "generator" =>
              /\ r.wrote <=> g.state = "exhausted"
              /\ g.state = "exhausted" => cache[g.key] = List(g.list_out)
              /\ g.state # "exhausted" /\ CachingOn(r) => ~InCache(g.key)
        /\ Repeats(t) /\ r.stream /\ r.pred.good /\ r.pred.prov >= 1 =>
              /\ r.prov = 0
              /\ Result(r) = r.pred.result
              /\ r.ret = cache[r.key]

C8_Witness ==
    \E t \in Tasks : /\ AtDone(t) /\ tk[t].gen_obj.kind = "generator"
                     /\ tk[t].gen_obj.state = "closed" /\ CachingOn(tk[t])
                     /\ Len(tk[t].gen_obj.list_out) >= 1

\* C9: when the provider is about to be invoked the attempt's timestamp is
\* the newest entry of the call history, recorded at this instant with the
\* task never suspended since; every attempt, failed ones included, has
\* recorded exactly one timestamp and keeps it.
C9_TimestampPerAttempt ==
    \A t \in Tasks :
        LET r == tk[t] IN
        /\ r.pc = "caller" =>
              /\ running = t
              /\ r.stamps = r.prov + 1
              /\ Len(call_history[r.llm]) >= r.stamps
              /\ Last(call_history[r.llm]) = now
        /\ r.pc \in {"add_call", "backoff", "store"} =>
              /\ r.stamps = r.prov
              /\ Len(call_history[r.llm]) >= r.stamps
        /\ r.pc = "done" /\ r.status \in {"RetryExhausted", "ProviderError"} =>
              /\ r.stamps = r.prov
              /\ Len(call_history[r.llm]) >= r.stamps

C9_Witness ==
    \E t \in Tasks : tk[t].pc = "caller" /\ tk[t].fail_count >= 1

\* C10: once should_stop is set during a streamed gen with n = 1, the buffer,
\* the output and the variable hold exactly the deltas consumed before it was
\* set, and the variable ends with that partial value.
C10_StopKeepsPartial ==
    \A t \in Tasks :
        LET r == tk[t] IN
        r.stopped /\ r.stream =>
            /\ r.generated_value = r.snap
            /\ Flatten(r.output) = r.snap
            /\ r.variable \in {r.snap, Unset}
            /\ r.variable = Unset => r.snap = <<>> \/ r.pc # "done"
            /\ r.pc = "done" /\ r.status = "ok" => r.variable = r.snap /\ ~r.executing

C10_Witness ==
    \E t \in Tasks : /\ AtDone(t) /\ tk[t].stopped /\ tk[t].stream
                     /\ tk[t].status = "ok" /\ Len(tk[t].snap) >= 1
                     /\ tk[t].gen_obj.kind = "generator"

\* the stop inference has ended: the stop of the model call is known, or the
\* role end could not be had
InfDone == inf.pc \in {"ready", "failed"}

\* the ordered list of delimiters: three single quotes, three double quotes,
\* three backquotes, a double quote, a single quote, a backquote
Delimiters ==
    << <<"'", "'", "'">>, <<"dq", "dq", "dq">>, <<"bq", "bq", "bq">>,
       <<"dq">>, <<"'">>, <<"bq">> >>

\* the preceding text ends with, and the text after the tag starts with, the
\* i-th delimiter
Enclosed(i) ==
    /\ startswith(inf.next, Delimiters[i])
    /\ endswith(inf.prev, Delimiters[i])

\* C18: with no explicit stop, when some delimiter of the ordered list ends
\* the preceding text and starts the following text, the stop of the model
\* call is the first such delimiter of the list.
C18_QuoteRule ==
    InfDone /\ inf.arg = None =>
        \A i \in 1..6 :
            Enclosed(i) /\ (\A j \in 1..(i - 1) : ~Enclosed(j)) =>
                inf.pc = "ready" /\ inf.stop = Delimiters[i]

C18_Witness ==
    /\ InfDone /\ inf.arg = None
    /\ Enclosed(1) /\ Enclosed(5)
    /\ inf.stop = <<"'", "'", "'">>

\* C19: with no explicit stop and no quote or role match, when the following
\* text is an opening tag immediately followed by its closing tag, the stop
\* of the model call is that closing tag.
C19_XmlRule ==
    InfDone /\ inf.arg = None /\ (\A i \in 1..6 : ~Enclosed(i)) =>
        \A name \in TagNames :
            startswith(inf.next, OpenTag(name) \o CloseTag(name)) =>
                inf.pc = "ready" /\ inf.stop = CloseTag(name)

\* C20: with no explicit stop and no quote match, when the following text
\* begins with a closing tag of user, assistant, system or role, with or
\* without "~" markers, the stop of the model call is the role end sequence
\* of the bound model, which only a chat model has.
C20_RoleRule ==
    InfDone /\ inf.arg = None /\ (\A i \in 1..6 : ~Enclosed(i)) =>
        \A r \in Roles, a \in Tildes, b \in Tildes :
            startswith(inf.next, RoleClose(a, r, b)) =>
                IF inf.chat_mode
                THEN inf.pc = "ready" /\ inf.stop = <<"<|im_end|>">>
                ELSE inf.pc = "failed"

C20_Witness ==
    /\ InfDone /\ inf.arg = None /\ inf.chat_mode
    /\ startswith(inf.next, RoleClose(<<"~">>, "assistant", <<"~">>))
    /\ inf.stop = <<"<|im_end|>">>

\* the gen handler has returned or raised
GenDone == gen.pc = "done"

\* the deltas the n = 1 handler has consumed, as one text
Consumed == Flatten([i \in 1..gen.pos |-> gen.resp[i]])

\* the list the variable held when the handler was entered
ItemsBefore == get_variable(gen.before, Lst(<<>>)).v

\* the n completions of the provider, as the value of a variable
Completions == Lst([i \in 1..Len(gen.resp) |-> Str(gen.resp[i])])

\* C11: when an n = 1 handler that observed should_stop returns, the run is
\* no longer executing and should_stop is cleared, whatever list_append,
\* parse and streaming are; the output and the variable keep what was applied.
C11_StopHaltsRun ==
    GenDone /\ gen.tag.n = 1 /\ gen.observed /\ gen.status = "ok" =>
        /\ ~parser.executing
        /\ ~parser.should_stop
        /\ gen.generated_value = Consumed
        /\ SubSeq(prefix, 1, Len(gen.pre)) = gen.pre

\* C12: in a streamed n = 1 generation, after each consumed delta the
\* variable (with list_append: the entry added to its list) is the
\* concatenation of the deltas consumed so far, the output has been given
\* exactly these deltas, once each and in order, and the handler has yielded
\* once before each delta it processed.
C12_StreamedDeltas ==
    gen.tag.n = 1 /\ gen.stream =>
        /\ gen.pc = "for" /\ gen.pos >= 1 =>
              /\ gen.generated_value = Consumed
              /\ variables = IF gen.tag.list_append
                             THEN Lst(Append(ItemsBefore, Str(Consumed)))
                             ELSE Str(Consumed)
        /\ gen.pc \in {"for", "yield0", "append"} =>
              prefix = gen.pre \o <<Fragment(<<>>)>>
                           \o [i \in 1..gen.pos |-> Fragment(gen.resp[i])]
        /\ gen.pc = "for" => gen.yields = gen.pos
        /\ gen.pc \in {"yield0", "append"} => gen.yields = gen.pos + 1

C12_Witness ==
    /\ gen.tag.n = 1 /\ gen.stream /\ gen.tag.list_append
    /\ gen.pc = "for" /\ gen.pos = 2 /\ ngens = 2

\* C13: with list_append every gen invocation that returns has added exactly
\* one entry at the end of the list of the variable (the list is new when
\* the variable did not exist) and has left the earlier entries as they were.
C13_OneEntryPerInvocation ==
    GenDone /\ gen.tag.list_append /\ gen.status = "ok" =>
        variables = Lst(Append(ItemsBefore,
                               IF gen.tag.n = 1 THEN Str(gen.generated_value)
                               ELSE Completions))

\* C14: with n > 1 and no list_append the variable holds the n completions of
\* the provider, in the provider's order; with hidden the handler gives
\* nothing to the output.
C14_ManyCompletions ==
    GenDone /\ gen.tag.n > 1 /\ ~gen.tag.list_append =>
        /\ gen.status = "ok"
        /\ variables = Completions
        /\ Len(variables.v) = gen.tag.n
        /\ gen.tag.hidden => prefix = gen.pre

C14_Witness ==
    /\ GenDone /\ gen.tag.n = 3 /\ ~gen.tag.list_append /\ gen.tag.hidden
    /\ variables = Lst(<<Str(<<"a">>), Str(<<"b">>), Str(<<"c">>)>>)

\* the block C15 describes, for the completions of the provider
BlockOf(resp, id) ==
    <<StartMarker(TRUE, Len(resp), id), PlainText(resp[1])>>
        \o Flatten([i \in 1..(Len(resp) - 1) |->
                       <<IndexMarker(TRUE, i, id), OpenComment,
                         Escaped(resp[i + 1]), CloseComment>>])
        \o <<EndMarker(id)>>

\* C15: with n > 1 and hidden false the handler gives the output exactly one
\* fragment: a start marker with the count n and an id, completion 0 as
\* plain text, then for i = 1..n-1 a marker with i and the same id and
\* completion i inside a comment opened once and closed once, then an end
\* marker with the same id; no earlier block has that id.
C15_ManyBlock ==
    GenDone /\ gen.tag.n > 1 /\ ~gen.tag.hidden =>
        /\ prefix = Append(gen.pre, ManyFragment(BlockOf(gen.resp, gen.id)))
        /\ \A k \in 1..Len(gen.pre) :
              gen.pre[k].kind = "many" => gen.pre[k].toks[1].id # gen.id

C15_Witness ==
    /\ GenDone /\ gen.tag.n = 3 /\ ~gen.tag.hidden /\ ngens = 2
    /\ Len(prefix) = 2

\* C16: a gen tag with parse and hidden fails with a configuration error,
\* whatever n is.
C16_ParseHiddenFails ==
    GenDone /\ gen.tag.parse /\ gen.tag.hidden => gen.status = "AssertionError"

RuleFree(text) ==
    /\ \A i \in 1..Len(quote_types) : ~QuoteMatches(i, text, inf.prev)
    /\ RoleMatch(text) = "none"
    /\ \A name \in TagNames : ~startswith(text, OpenTag(name) \o CloseTag(name))

\* no explicit stop, and no rule applies to the following text, as written or
\* as the handler reads it
FallbackCase ==
    InfDone /\ inf.arg = None /\ RuleFree(inf.next) /\ RuleFree(inf.next_text)

\* the following text under whitespace control: when the node after it opens
\* with "{{~", leading whitespace is dropped and, if nothing is left, the
\* text of that node stands in
TrimmedFollowing ==
    IF inf.next_next # None /\ startswith(inf.next_next, <<"{{", "~">>)
    THEN LET rest == inf.next
             k == CHOOSE n \in 0..Len(rest) :
                     /\ \A i \in 1..n : rest[i] \in Whitespace
                     /\ n < Len(rest) => rest[n + 1] \notin Whitespace
         IN IF k = Len(rest) THEN inf.next_next ELSE SubSeq(rest, k + 1, Len(rest))
    ELSE inf.next

\* C21 as stated: with no explicit stop and no quote, role or XML match, the
\* stop of the model call is the raw following text, and no stop at all when
\* that text is empty.
C21_FallbackRawText ==
    FallbackCase =>
        inf.pc = "ready" /\ inf.stop = (IF inf.next = <<>> THEN None ELSE inf.next)

\* C21 amended: with no explicit stop and no quote, role or XML match, the
\* stop of the model call is the following text under whitespace control,
\* and no stop at all when that text is empty.
C21_FallbackTrimmedText ==
    FallbackCase =>
        /\ inf.pc = "ready"
        /\ inf.stop = (IF TrimmedFollowing = <<>> THEN None ELSE TrimmedFollowing)

C21_Witness ==
    /\ FallbackCase /\ inf.pc = "ready"
    /\ inf.next = <<" ", "x">> /\ inf.next_next = RoleClose(<<"~">>, "x", <<>>)
    /\ inf.stop = <<"x">>

C21_WitnessEmpty ==
    FallbackCase /\ inf.next = <<>> /\ inf.next_next = None /\ inf.stop = None

----------------------------------------------------------------------------
\* Program.__call__, Program.execute and the runs they create (_program.py
\* lines 35-110, 142-192, 253-293).  A template is a sequence of gen tags on
\* one variable; a text is a sequence of units.  The executor walks the tags
\* in order and each tag is the gen handler of _gen.py, taken here as one
\* step from the cache seed (line 110) to the last set_variable (line 181).

\* Bounds of the model
MaxTags == 2
MaxRuns == 2

\* temperature 0, and one temperature above 0
Temperatures == {0, 1}

\* the gen tags of a template: pattern is the argument of line 11 that the
\* session of _openai.py refuses
RunTags ==
    {tag \in [temperature : Temperatures, list_append : BOOLEAN, pattern : BOOLEAN] :
        tag.pattern => (tag.temperature = 0 /\ ~tag.list_append)}

Templates == [1..MaxTags -> RunTags]

\* Program._text before execution: the template source
Source == <<"{{gen}}">>

\* a variable whose value is a list refers to a list object of the heap
Ref(id) == [kind |-> "ref", id |-> id]
NoKwarg == [kind |-> "absent"]

\* the list given to the constructor of the program, and the list the
\* caller passes as a keyword argument of its calls
ProgramItems == <<Str(<<"z">>)>>
CallerItems == <<>>
ProgramList == Ref(1)
CallerList == Ref(2)

\* the value a variable shows: Program.__getitem__
Deref(v, h) == IF v.kind = "ref" THEN Lst(h[v.id]) ELSE v

\* copy.deepcopy of line 175: a list is copied to a new object
deepcopy(v, h) ==
    IF v.kind = "ref"
    THEN [v |-> Ref(Len(h) + 1), heap |-> Append(h, h[v.id])]
    ELSE [v |-> v, heap |-> h]

\* line 175 and lines 81-83: the variables of the new program are the
\* copies of the program's, overridden by the keyword arguments as given
new_variables(pv, kw, h) ==
    IF kw # NoKwarg THEN [v |-> kw, heap |-> h] ELSE deepcopy(pv, h)

cache_seed_of_Counter(temperature, counter) == counter

\* _gen.py lines 110-115: the cache_seed passed to the session
cache_seed_of(temperature, counter) == IF temperature > 0 THEN counter ELSE 0

counter_after_Always(temperature, counter) == counter + 1

\* _gen.py lines 111-113: parser.program.cache_seed after the tag
counter_after(temperature, counter) ==
    IF temperature > 0 THEN counter + 1 ELSE counter

\* the provider: the same completion for the same prompt at temperature 0,
\* any completion above
Answer(prompt) == IF Len(prompt) % 2 = 0 THEN <<"u">> ELSE <<"v">>
CompletionsOf(prompt, temperature) ==
    IF temperature = 0 THEN {Answer(prompt)} ELSE {<<"u">>, <<"v">>}

\* _openai.py lines 269-275: the key of a call
RunKey(prompt, temperature, cache_seed, stream) ==
    [prompt |-> prompt, temperature |-> temperature, cache_seed |-> cache_seed,
     stream |-> stream]

Cached(c, key) == \E e \in c : e.key = key
EntryOf(c, key) == (CHOOSE e \in c : e.key = key).text
\* cache[key] = value
Put(c, key, text) == {e \in c : e.key # key} \cup {[key |-> key, text |-> text]}

\* _openai.py lines 275-334 with the response read to its end by lines
\* 152-160 of gen: the text of the completion and the cache afterwards
session_call(c, key, key1, stream, caching, answer) ==
    LET k == IF ~Cached(c, key) /\ stream /\ Cached(c, key1) THEN key1 ELSE key
    IN IF ~Cached(c, k) \/ ~caching
       THEN [text |-> answer, cache |-> Put(c, k, answer)]
       ELSE [text |-> EntryOf(c, k), cache |-> c]

\* _openai.py line 271: assert not pattern
UnsupportedFeature(tag) == tag.pattern

\* _gen.py lines 146-148: append is called on what the variable holds
AppendFails(tag, stored) == tag.list_append /\ stored.kind = "str"

\* ProgramExecutor.run: a failure of a handler ends the walk and is raised
executor_run(failed) == IF failed THEN "raise" ELSE "continue"

returns_early_Always(stream) == TRUE

\* lines 182-190: create_task returns at once, run_until_complete when the
\* execution is over
returns_early(stream) == stream

\* Program._executor = None
NoExecutor == [prefix |-> <<>>, pos |-> 0]

\* lines 288-293
marked_text(p) == IF p.executor # NoExecutor THEN p.executor.prefix ELSE p.text

\* OpenAI.cache is a disk cache: it is empty, or holds a completion that an
\* earlier process stored for the first prompt
WarmRunCaches ==
    {{}, {[key |-> RunKey(<<>>, 0, 0, FALSE), text |-> <<"v">>]}}

RunInit ==
    /\ program \in [template : Templates, text : {Source}, cache_seed : {0, 1},
                    variables : {Undefined, ProgramList}, caching : BOOLEAN]
    /\ runs = <<>>
    /\ heap = <<ProgramItems, CallerItems>>
    /\ llm_cache \in WarmRunCaches
    /\ caller = [pc |-> "code", run |-> 0, holds |-> {}, resolved |-> {},
                 raised |-> {}, stop_raised |-> {}, original |-> program]
    /\ cache = [k \in Keys |-> NoEntry]
    /\ call_history = [l \in LLMs |-> <<>>]
    /\ EnvCredentials
    /\ now = 0 /\ running = 0
    /\ tk = [t \in Tasks |-> IdleTask]
    /\ lastDone = NoCall /\ ncalls = 0
    /\ gen = Off /\ variables = Off /\ prefix = Off /\ parser = Off /\ ngens = 0
    /\ inf = Off

RunFrame == UNCHANGED <<callVars, genVars, infVars>>

\* Program.__call__, lines 159-192
Call(stream, kw) ==
    /\ caller.pc = "code"
    /\ Len(runs) < MaxRuns
    /\ LET nv == new_variables(program.variables, kw, heap)
           r == Len(runs) + 1
           new_program ==
               [stream |-> stream, cache_seed |-> program.cache_seed,
                variables |-> nv.v, text |-> program.text,
                executor |-> [prefix |-> <<>>, pos |-> 1],
                complete |-> FALSE, status |-> "running", should_stop |-> FALSE,
                \* history of the run
                seed0 |-> program.cache_seed, kw |-> kw, calls |-> <<>>,
                buffer |-> <<>>, mine |-> <<>>, at_failure |-> Undefined]
       IN /\ runs' = Append(runs, new_program)
          /\ heap' = nv.heap
          /\ caller' = IF returns_early(stream)
                       THEN [caller EXCEPT !.holds = @ \cup {r}]
                       ELSE [caller EXCEPT !.pc = "blocked", !.run = r]
    /\ UNCHANGED <<program, llm_cache>>
    /\ RunFrame

\* the event loop runs a task of create_task once the code of the caller
\* has given the loop control, by an await or by its end; the new loop of
\* line 189 runs the coroutine of run_until_complete
Scheduled(r) ==
    /\ r \in 1..Len(runs)
    /\ IF runs[r].stream THEN caller.pc \in {"awaiting", "returned"}
       ELSE caller.pc = "blocked" /\ caller.run = r

\* the executor visits the next gen tag: _gen.py lines 110-181, and
\* Program.execute line 268 when the handler fails
EvalTag(r, answer) ==
    /\ Scheduled(r)
    /\ runs[r].status = "running"
    /\ runs[r].executor.pos <= MaxTags
    /\ LET p == runs[r]
           tag == program.template[p.executor.pos]
           prompt == p.executor.prefix
           cache_seed == cache_seed_of(tag.temperature, p.cache_seed)
           counter == counter_after(tag.temperature, p.cache_seed)
           key == RunKey(prompt, tag.temperature, cache_seed, p.stream)
           key1 == RunKey(prompt, tag.temperature, cache_seed, FALSE)
           call == [temperature |-> tag.temperature, cache_seed |-> cache_seed,
                    key |-> key]
           sc == session_call(llm_cache, key, key1, p.stream, program.caching, answer)
           stored == p.variables
           failed == UnsupportedFeature(tag) \/ AppendFails(tag, stored)
           \* lines 153-157: a stop request ends the loop before the first piece
           text == IF ShouldBreak(p.should_stop) THEN <<>> ELSE sc.text
           out == p.executor.prefix \o text
           item == Str(text)
           \* lines 187-191: executing is cleared and the walk ends
           pos == IF p.should_stop THEN MaxTags + 1 ELSE p.executor.pos + 1
           q == [p EXCEPT !.cache_seed = counter, !.calls = Append(@, call),
                          !.should_stop = FALSE]
       IN /\ answer \in CompletionsOf(prompt, tag.temperature)
          \* a stream closed before its end is not saved
          /\ llm_cache' = IF UnsupportedFeature(tag) \/ (p.should_stop /\ p.stream)
                          THEN llm_cache ELSE sc.cache
          /\ IF executor_run(failed) = "raise"
             THEN /\ runs' = [runs EXCEPT ![r] =
                                [q EXCEPT !.status = "failed", !.at_failure = Deref(stored, heap)]]
                  /\ heap' = heap
                  /\ caller' = IF caller.pc = "blocked"
                               THEN [caller EXCEPT !.pc = "code", !.run = 0,
                                                   !.raised = @ \cup {r}]
                               ELSE caller
             ELSE /\ runs' = [runs EXCEPT ![r] =
                        [q EXCEPT !.executor = [prefix |-> out, pos |-> pos],
                                  !.buffer = out,
                                  !.mine = IF tag.list_append THEN Append(@, item) ELSE @,
                                  !.variables =
                                      IF ~tag.list_append THEN set_variable(stored, item)
                                      ELSE set_variable(stored,
                                              get_variable(stored, Ref(Len(heap) + 1)))]]
                  /\ heap' = IF ~tag.list_append THEN heap
                             ELSE IF stored = Undefined THEN Append(heap, <<item>>)
                             ELSE [heap EXCEPT ![stored.id] = Append(@, item)]
                  /\ caller' = caller
    /\ UNCHANGED program
    /\ RunFrame

\* Program.execute lines 268-278 once the walk is over, and the return of
\* run_until_complete and of __call__, lines 190-192
Executed(r) ==
    /\ Scheduled(r)
    /\ runs[r].status = "running"
    /\ runs[r].executor.pos > MaxTags
    /\ runs' = [runs EXCEPT ![r] =
                  [@ EXCEPT !.text = runs[r].executor.prefix,
                            !.executor = NoExecutor,
                            !.complete = TRUE,
                            !.status = "finished"]]
    /\ caller' = IF caller.pc = "blocked"
                 THEN [caller EXCEPT !.pc = "code", !.run = 0, !.holds = @ \cup {r}]
                 ELSE caller
    /\ UNCHANGED <<program, heap, llm_cache>>
    /\ RunFrame

\* __await__, lines 148-149: the caller awaits a program it was returned
Await(r) ==
    /\ caller.pc = "code"
    /\ r \in caller.holds \ caller.resolved
    /\ runs[r].stream
    /\ caller' = [caller EXCEPT !.pc = "awaiting", !.run = r]
    /\ UNCHANGED <<program, runs, heap, llm_cache>>
    /\ RunFrame

\* _await_finish_execute, lines 145-146: the wait on the event is over
Resolve ==
    /\ caller.pc = "awaiting"
    /\ runs[caller.run].complete
    /\ caller' = [caller EXCEPT !.pc = "code", !.run = 0,
                                !.resolved = @ \cup {caller.run}]
    /\ UNCHANGED <<program, runs, heap, llm_cache>>
    /\ RunFrame

\* the code of the caller ends: the event loop of line 185 goes on
Return ==
    /\ caller.pc = "code"
    /\ caller' = [caller EXCEPT !.pc = "returned"]
    /\ UNCHANGED <<program, runs, heap, llm_cache>>
    /\ RunFrame

RunNext ==
    \/ \E stream \in BOOLEAN, kw \in {NoKwarg, CallerList} : Call(stream, kw)
    \/ \E r \in 1..MaxRuns, answer \in {<<"u">>, <<"v">>} : EvalTag(r, answer)
    \/ \E r \in 1..MaxRuns : Executed(r)
    \/ \E r \in 1..MaxRuns : Await(r)
    \/ Resolve
    \/ Return

RunSpec == RunInit /\ [][RunNext]_vars

----------------------------------------------------------------------------
\* Properties of the runs of a program

RunIds == 1..Len(runs)
RunOver(r) == runs[r].status # "running"

\* every gen tag of the template has temperature 0
ColdTemplate == \A i \in 1..MaxTags : program.template[i].temperature = 0

\* the keys of the model calls a run issued, in order
KeysOf(r) == [i \in 1..Len(runs[r].calls) |-> runs[r].calls[i].key]

\* the number of calls with a temperature above 0 among the first i of a run
Hot(r, i) == Cardinality({j \in 1..i : runs[r].calls[j].temperature > 0})

C23_SeedCounter ==
    /\ program.cache_seed = caller.original.cache_seed
    /\ \A r \in RunIds :
          /\ runs[r].seed0 = caller.original.cache_seed
          /\ runs[r].cache_seed = runs[r].seed0 + Hot(r, Len(runs[r].calls))
          /\ \A i \in 1..Len(runs[r].calls) :
                runs[r].calls[i].temperature > 0 =>
                    runs[r].calls[i].cache_seed = runs[r].seed0 + Hot(r, i) - 1

C23_Witness ==
    /\ Len(runs) = 2
    /\ runs[1].seed0 = 1 /\ runs[2].seed0 = 1
    /\ Len(runs[1].calls) = 2
    /\ runs[1].calls[1].temperature = 0 /\ runs[1].calls[2].temperature > 0
    /\ runs[1].calls[2].cache_seed = 1 /\ runs[1].cache_seed = 2
    /\ Len(runs[2].calls) = 2 /\ runs[2].calls[2].cache_seed = 1

C23_WitnessTwoHot ==
    \E r \in RunIds :
        /\ Len(runs[r].calls) = 2
        /\ runs[r].calls[1].temperature > 0 /\ runs[r].calls[2].temperature > 0
        /\ runs[r].calls[2].cache_seed = runs[r].seed0 + 1

\* the items a run found in the list of its variable when it was created
BaseItems(r) ==
    IF runs[r].kw # NoKwarg THEN CallerItems
    ELSE IF program.variables = Undefined THEN <<>> ELSE ProgramItems

\* C25: what a run appends or sets is seen by that run alone: the program
\* shows the value it was created with, and a list a run shows holds the
\* items the run was created with followed by the items the run itself
\* appended, also when the list was passed as a keyword argument.
C25_IndependentStores ==
    /\ Deref(program.variables, heap) =
          (IF program.variables = Undefined THEN Undefined ELSE Lst(ProgramItems))
    /\ \A r \in RunIds :
          LET v == Deref(runs[r].variables, heap)
          IN v.kind = "list" => v.v = BaseItems(r) \o runs[r].mine

\* the program was returned to the caller after execute set the event,
\* cleared the executor and stored the buffer of the executor as its text
Completed(r) ==
    /\ runs[r].complete
    /\ runs[r].executor = NoExecutor
    /\ marked_text(runs[r]) = runs[r].buffer

\* C26: a program returned by a call without stream has completed, and so
\* has a program whose await has resolved; a call with stream may return a
\* program that has not.
C26_ReturnsAfterCompletion ==
    /\ \A r \in caller.holds : ~runs[r].stream => Completed(r)
    /\ \A r \in caller.resolved : Completed(r)

C26_Witness ==
    \E r1 \in caller.holds, r2 \in caller.resolved :
        /\ ~runs[r1].stream /\ runs[r1].buffer # <<>>
        /\ runs[r2].stream /\ runs[r2].buffer # <<>>

C26_WitnessEarly ==
    \E r \in caller.holds : runs[r].stream /\ runs[r].status = "running"

\* C27: when a failure ends a run, the caller holds the program, its marked
\* text is the buffer of the executor as of the failure and its variable
\* shows the value it had at the failure.
C27_PartialOutputAvailable ==
    \A r \in RunIds :
        runs[r].status = "failed" =>
            /\ r \in caller.holds
            /\ marked_text(runs[r]) = runs[r].buffer
            /\ Deref(runs[r].variables, heap) = runs[r].at_failure

----------------------------------------------------------------------------
\* Calls that ask for a capability the OpenAI binding does not have:
\* token_healing, pattern, stop_regex (_openai.py lines 262, 271, 272)

Capabilities == {"token_healing", "pattern", "stop_regex"}

Refused_Never(cap) == FALSE

\* the asserts of lines 262, 271 and 272 come before the key is computed
Refused(cap) == cap \in Capabilities

\* __call__ lines 258-275 of a call with one of these arguments set
StartCallWith(t, l, p, s, c, cap) ==
    /\ running = 0
    /\ tk[t].pc = "idle"
    /\ \A u \in Tasks : ~InCall(u)
    /\ ncalls < MaxCalls
    /\ ncalls' = ncalls + 1
    /\ LET r == [IdleTask EXCEPT !.llm = l, !.prompt = p, !.stream = s,
                                 !.caching = c, !.key = CacheKey(p, s, c),
                                 !.cap = cap, !.pred = lastDone]
       IN IF Refused(cap)
          THEN Done(t, [r EXCEPT !.err = "AssertionError"], "Unsupported")
          ELSE /\ tk' = [tk EXCEPT ![t] = [r EXCEPT !.pc = "lookup"]]
               /\ running' = t
    /\ UNCHANGED <<cache, call_history, now, lastDone>>
    /\ UNCHANGED <<openai, llm, genVars, infVars, runVars>>

CapNext ==
    \/ Next
    \/ \E t \in Tasks, l \in LLMs, p \in Prompts, s \in BOOLEAN, cap \in Capabilities :
          \E c \in CachingsOf(l) : StartCallWith(t, l, p, s, c, cap)

CapSpec == Init /\ [][CapNext]_vars

\* C24: a call that asks for a pattern, a stop regex or token healing fails
\* at once: nothing is returned, also when the cache holds an entry for its
\* parameters, no timestamp is recorded, the provider is not invoked and the
\* cache is not written.
C24_UnsupportedFailsAtOnce ==
    \A t \in Tasks :
        LET r == tk[t] IN
        r.cap # "none" =>
            /\ r.pc = "done" /\ r.status = "Unsupported"
            /\ r.ret = NoEntry /\ ~r.hit
            /\ r.stamps = 0 /\ ~r.waited
            /\ r.prov = 0
            /\ ~r.wrote

C24_Witness ==
    \E t \in Tasks :
        /\ tk[t].cap = "pattern" /\ AtDone(t)
        /\ tk[t].caching = "True" /\ InCache(tk[t].key)
        /\ Len(call_history[tk[t].llm]) > 0

\* the text T the provider returned to the handler: the text of the one
\* response, or the deltas of the stream in order
Returned == Flatten(gen.resp)

\* the text the handler has given to the output since it was entered
Emitted ==
    LET added == SubSeq(prefix, Len(gen.pre) + 1, Len(prefix))
    IN Flatten([i \in 1..Len(added) |-> added[i].v])

\* C28: when an n = 1 handler without list_append that saw no stop has
\* written its value, streamed or not, the variable is the returned text T
\* and the text given to the output is T.
C28_StreamEquivalence ==
    ( /\ gen.tag.n = 1 /\ ~gen.tag.list_append /\ ~gen.observed
      /\ gen.pc \in {"tail", "done"} )
    => /\ variables = Str(Returned)
       /\ Emitted = Returned

C28_Witness ==
    /\ gen.tag.n = 1 /\ ~gen.tag.list_append /\ ~gen.observed
    /\ gen.stream /\ gen.pc = "done" /\ gen.status = "ok"
    /\ Len(gen.resp) = 2 /\ variables = Str(<<"a", "b">>)

C28_WitnessNonStream ==
    /\ gen.tag.n = 1 /\ ~gen.tag.list_append /\ ~gen.observed
    /\ ~gen.stream /\ gen.pc = "done" /\ gen.status = "ok"
    /\ Len(gen.resp) = 1 /\ variables = Str(<<"a", "b">>)

\* the call attempts of the instances ls in the trailing window
RECURSIVE WindowTotal(_)
WindowTotal(ls) ==
    IF ls = {} THEN 0
    ELSE LET l == CHOOSE x \in ls : TRUE
         IN Len(count_calls_prune(call_history[l], now)) + WindowTotal(ls \ {l})

\* C29: the count a call has just passed the rate check with is the number
\* of attempts made in the trailing window through any instance.
C29_SharedWindow ==
    \A t \in Tasks :
        tk[t].pc = "add_call" /\ tk[t].fail_count = 0 /\ tk[t].prov = 0 =>
            Len(count_calls_prune(call_history[tk[t].llm], now)) = WindowTotal(LLMs)

\* C30: no entry of the cache under a key computed with stream=False is a
\* list of chunks, and no call with stream=False returns one.
C30_NonStreamKeysHoldResponses ==
    /\ \A k \in Keys : ~k.stream => cache[k].kind # "list"
    /\ \A t \in Tasks : ~tk[t].stream => tk[t].ret.kind # "list"

\* caching is off for the call of r: by its argument, or by the instance
\* when the argument is None
CachingOff(r) == r.caching = "False" \/ (r.caching = "None" /\ ~llm_caching[r.llm])

C31_WitnessServed ==
    \E t \in Tasks :
        /\ tk[t].pc = "gen" /\ tk[t].prov = 0
        /\ tk[t].caching = "None" /\ tk[t].llm = 1

\* C32: once a run has ended, normally or by a failure, its completion event
\* is set, so that an await on the program resolves.
C32_EventSetOnEveryExit ==
    \A r \in RunIds : RunOver(r) => runs[r].complete

----------------------------------------------------------------------------
\* Stop events of the front end

\* ProgramExecutor.stop: the request is noted for the handlers to poll
executor_stop(p) == [p EXCEPT !.should_stop = TRUE]

\* the _executor attribute of the program a front end event is sent to: 0 is
\* the program that was constructed, whose attribute line 89 set to None
executor_of(r) == IF r = 0 THEN NoExecutor ELSE runs[r].executor

\* Program._interface_event with a stop event, lines 118-122, delivered by
\* the event loop; the call of stop on None raises AttributeError
InterfaceEvent(r) ==
    /\ caller.pc \in {"awaiting", "returned"}
    /\ r \in 0..Len(runs)
    /\ r \notin caller.stop_raised
    /\ r > 0 => ~runs[r].should_stop
    /\ IF executor_of(r) = NoExecutor
       THEN /\ caller' = [caller EXCEPT !.stop_raised = @ \cup {r}]
            /\ runs' = runs
       ELSE /\ runs' = [runs EXCEPT ![r] = executor_stop(@)]
            /\ caller' = caller
    /\ UNCHANGED <<program, heap, llm_cache>>
    /\ RunFrame

StopInit ==
    /\ RunInit
    /\ program.cache_seed = 0
    /\ program.variables = Undefined
    /\ program.caching
    /\ \A i \in 1..MaxTags : program.template[i].temperature = 0
    /\ llm_cache = {}

StopNext ==
    \/ RunNext
    \/ \E r \in 0..MaxRuns : InterfaceEvent(r)

StopSpec == StopInit /\ [][StopNext]_vars

\* C33: no stop event of the front end raises, whether it arrives at a
\* program that was never run, at one that is executing or at one whose run
\* has completed.
C33_StopNeverRaises ==
    caller.stop_raised = {}

----------------------------------------------------------------------------
\* Credentials of the library call

\* OpenAI.__init__ lines 89-102 with a token given to the constructor: the
\* objects hold keys of their own, the package holds the key of the
\* environment
OwnCredentials ==
    /\ openai = [api_key |-> "sk-env", organization |-> "org-env"]
    /\ llm = [l \in LLMs |->
                IF l = 1 THEN [token |-> "sk-1", organization |-> "org-1"]
                ELSE [token |-> "sk-2", organization |-> "org-env"]]

CredInit ==
    /\ cache = [k \in Keys |-> NoEntry]
    /\ call_history = [l \in LLMs |-> <<>>]
    /\ OwnCredentials
    /\ now = 0
    /\ running = 0
    /\ tk = [t \in Tasks |-> IdleTask]
    /\ lastDone = NoCall
    /\ ncalls = 0
    /\ gen = Off /\ variables = Off /\ prefix = Off /\ parser = Off /\ ngens = 0
    /\ inf = Off
    /\ program = Off /\ runs = Off /\ heap = Off /\ llm_cache = Off /\ caller = Off

CredSpec == CredInit /\ [][Next]_vars

\* the library call of task t has been left, by a return or by a raise
LeftLibrary(t) == tk[t].prov > 0 /\ tk[t].pc # "caller"

\* C35: when the library call has been left, by a return or by a raise, the
\* key and the organization of the openai package are the ones that were
\* there before the call.
C35_CredentialsRestored ==
    \A t \in Tasks :
        LeftLibrary(t) =>
            openai = [api_key |-> tk[t].prev_key, organization |-> tk[t].prev_org]

----------------------------------------------------------------------------
\* Sessions that share one rate limiter and go on calling

Sessions == {1, 2}

\* time.time() is read for differences only: the instants of the deque and
\* of the timers are kept as offsets from the present, now stays 0, and an
\* instant that has left the window is kept at the first offset outside it
Aged(x, d) == IF x - d < 0 - (Window + 1) THEN 0 - (Window + 1) ELSE x - d

Remaining(x, d) == IF x - d < 0 THEN 0 ELSE x - d

LiveInit ==
    /\ cache = [k \in Keys |-> NoEntry]
    /\ call_history = [l \in LLMs |-> <<>>]
    /\ EnvCredentials
    /\ now = 0
    /\ running = 0
    /\ tk = [t \in Sessions |-> IdleTask]
    /\ lastDone = NoCall
    /\ ncalls = 0
    /\ gen = Off /\ variables = Off /\ prefix = Off /\ parser = Off /\ ngens = 0
    /\ inf = Off
    /\ program = Off /\ runs = Off /\ heap = Off /\ llm_cache = Off /\ caller = Off

\* __call__ lines 258-275 of a session of the first OpenAI object, called
\* without streaming and with caching=False
LiveStart(t) ==
    /\ running = 0
    /\ tk[t].pc = "idle"
    /\ running' = t
    /\ tk' = [tk EXCEPT ![t] =
                 [IdleTask EXCEPT !.pc = "lookup", !.caching = "False",
                                  !.key = CacheKey("p", FALSE, "False")]]
    /\ UNCHANGED <<cache, call_history, now, lastDone, ncalls>>
    /\ UNCHANGED <<openai, llm, genVars, infVars, runVars>>

\* __call__ line 334 or a raise of lines 310-321: the call is over and its
\* session is free for the next call
LiveLeave(t) ==
    /\ running = t
    /\ tk[t].pc \in {"gen", "done"}
    /\ running' = 0
    /\ tk' = [tk EXCEPT ![t] = IdleTask]
    /\ UNCHANGED <<cache, call_history, now, lastDone, ncalls>>
    /\ UNCHANGED <<openai, llm, genVars, infVars, runVars>>

\* the instants at which a timer ends or a timestamp leaves the window
LiveInstants ==
    {tk[t].wake : t \in {u \in Sessions : tk[u].pc = "backoff"}}
    \cup {call_history[l][1] + Window + 1 : l \in {m \in LLMs : call_history[m] # <<>>}}

\* the clock advances to the next of these instants once no task is ready
LiveTick(d) ==
    /\ running = 0
    /\ \E t \in Sessions : tk[t].pc \in {"sleep1", "backoff"}
    /\ \A t \in Sessions : tk[t].pc \in {"sleep1", "backoff"} => tk[t].wake > 0
    /\ d \in LiveInstants
    /\ d > 0
    /\ \A other \in LiveInstants : other > 0 => d <= other
    /\ call_history' = [l \in LLMs |->
                          [i \in 1..Len(call_history[l]) |-> Aged(call_history[l][i], d)]]
    /\ tk' = [t \in Sessions |->
                IF tk[t].pc \in {"sleep1", "backoff"}
                THEN [tk[t] EXCEPT !.wake = Remaining(@, d)] ELSE tk[t]]
    /\ UNCHANGED <<cache, now, running, lastDone, ncalls>>
    /\ UNCHANGED <<openai, llm, genVars, infVars, runVars>>

\* the steps of a call that has been started
SessionStep(t) ==
    \/ Lookup(t)
    \/ RateLimit(t)
    \/ WakeRate(t)
    \/ AddCall(t)
    \/ CallerOk(t)
    \/ \E e \in {"RateLimitError", "APIError"} : CallerRaise(t, e)
    \/ WakeBackoff(t)
    \/ Store(t)
    \/ Ret(t)
    \/ LiveLeave(t)

LiveNext ==
    \/ \E t \in Sessions : LiveStart(t)
    \/ \E t \in Sessions : SessionStep(t)
    \/ \E d \in 1..(Window + 1) : LiveTick(d)

\* the event loop runs every task that is ready, and the clock advances
LiveSpec ==
    /\ LiveInit
    /\ [][LiveNext]_vars
    /\ \A t \in Sessions : WF_vars(SessionStep(t))
    /\ WF_vars(\E d \in 1..(Window + 1) : LiveTick(d))

\* C34: a call that reaches the rate limiter is over in the end, with a
\* result or with an error, also while the other session goes on calling.
C34_UncachedCallEnds ==
    \A t \in Sessions : (tk[t].pc = "ratelimit") ~> (tk[t].pc \in {"gen", "done"})

----------------------------------------------------------------------------
\* the node after the following text is a tag that opens with whitespace
\* control, and no stop was given
LookAhead ==
    /\ inf.arg = None
    /\ inf.next_next # None /\ startswith(inf.next_next, <<"{{", "~">>)

\* the following text is nothing but whitespace
Blank(text) == \A i \in 1..Len(text) : text[i] \in Whitespace

\* C36: with no explicit stop and a next-next tag that opens with whitespace
\* control, the rules read the following text without its leading whitespace
\* and, when nothing is left, the text of that tag; so whitespace followed by
\* a role-closing tag with the marker gives the role end sequence of a chat
\* model as the stop, never no stop.
C36_LookAheadStop ==
    LookAhead /\ inf.pc # "quote" =>
        /\ inf.next_text = TrimmedFollowing
        /\ \A r \in Roles :
              ( /\ InfDone /\ Blank(inf.next)
                /\ \E b \in Tildes : inf.next_next = RoleClose(<<"~">>, r, b) )
              => IF inf.chat_mode
                 THEN inf.pc = "ready" /\ inf.stop = <<"<|im_end|>">>
                 ELSE inf.pc = "failed"

C36_Witness ==
    /\ LookAhead /\ InfDone /\ inf.chat_mode
    /\ inf.next = <<" ">> /\ inf.next_next = RoleClose(<<"~">>, "user", <<>>)
    /\ inf.next_text = inf.next_next
    /\ inf.stop = <<"<|im_end|>">>

============================================================================
